---- MODULE Spec2Model ----
\* A model of load-tester (src/main.go, src/utils.go): the dispatcher
\* runLoadTest with its worker goroutines, the signal handler goroutine of
\* setupSignalHandling, and the AsyncLogger with its logWorker goroutine.
EXTENDS Integers, Sequences, FiniteSets, Bags, TLC

\* ------------------------------------------------------------------ bounds
MaxReqs == 2
MaxConc == 2
MaxRPS == 4
MaxLogCalls == 2
MaxStartCalls == 2
MaxInt == 3         \* largest argument of a random.int placeholder
MaxLen == 2         \* longest random.string; longest list of a variable tree
MaxWindow == 4      \* samples in the latency window
MaxLatency == 3     \* largest latency, in time units

\* -------------------------------------------------------- program constants
LogChannelCap == 1000

\* The status codes a RequestResult can carry in this model: 0 is the zero
\* value left in StatusCode when the transport fails.
StatusCodeSet == {0, 200, 500}

\* What the transport can give one request: err is client.Do's error;
\* without one, status is resp.StatusCode, json is whether the body
\* unmarshals into a GraphQLResponse, errors is len(gqlResp.Errors).
Responses == [err : BOOLEAN, status : {200, 500}, json : BOOLEAN,
              errors : 0..1]

VARIABLES
    Concurrency,        \* config.Concurrency
    TotalReqs,          \* config.TotalReqs
    TargetRPS,          \* config.TargetRPS
    LogRequests,        \* config.LogRequests
    mainpc,             \* position of the main goroutine (main / runLoadTest)
    requestCount,       \* loop variable of the dispatch loop
    semCap,             \* cap(semaphore); -1 before the channel is made
    semaphore,          \* len(semaphore): slots held
    wg,                 \* the WaitGroup counter
    ctxDone,            \* ctx cancelled (deferred cancel)
    tokens,             \* rate limiter tokens; -1 when limiter == nil
    workers,            \* how many worker goroutines are in each local state
    successCount,
    failedCount,
    statusCodes,
    tCount,             \* samples t holds (t.AddTime calls)
    testResults,        \* the global testResults
    returned,           \* the value runLoadTest returned
    stopDeferred,       \* defer logger.Stop() was registered
    printedBy,          \* goroutines that have called printResults
    gracefulShutdown,   \* the global flag
    sigpc,              \* position of the signal handler goroutine
    sigSnap,            \* the *TestResults the handler passed to printResults
    exited,             \* the process has ended: "no", "main", "signal", "panic"
    logger,             \* runLoadTest's logger variable: "nil" or "set"
    enabled,            \* al.enabled
    started,            \* al.started
    logChannel,         \* al.logChannel's buffer
    chanClosed,         \* al.logChannel closed
    logFile,            \* rows flushed to the log file, header excluded
    headerRows,         \* header rows written
    fileClosed,         \* al.logFile closed
    logWorkers,         \* logWorker goroutines running (al.waitGroup's counter)
    stopCalls,          \* history: calls of AsyncLogger.Stop on a started logger
    startCalls,         \* history: calls of AsyncLogger.Start
    logCalls,           \* history: calls of AsyncLogger.Log
    dropped,            \* history: entries Log dropped on a full channel
    input,              \* argument of the function under study, in a tuple
    output              \* its result, in a tuple; <<>> before the call

cfgVars == <<Concurrency, TotalReqs, TargetRPS, LogRequests>>
mainVars == <<mainpc, requestCount, semCap, ctxDone, tokens, returned,
              stopDeferred>>
workerVars == <<workers, semaphore, wg>>
countVars == <<successCount, failedCount, statusCodes, tCount, testResults>>
sigVars == <<gracefulShutdown, sigSnap, sigpc, exited, printedBy>>
alVars == <<enabled, started, logChannel, chanClosed, logFile, headerRows,
            fileClosed, logWorkers, stopCalls, startCalls, logCalls, dropped>>
loggerVars == <<logger, alVars>>
pureVars == <<input, output>>
vars == <<cfgVars, mainVars, workerVars, countVars, sigVars, loggerVars,
          pureVars>>

NoResults == [nil |-> TRUE]

\* ------------------------------------------------------------ pure helpers

\* math.Ceil(float64(rps) * 0.3) for the small rates of this model.
CeilP95 == [r \in 0..(MaxRPS + 1) |-> (3 * r + 9) \div 10]

\* Mutant of DeriveConcurrency: a target rate overrides a configured value.
DeriveConcurrencyMutant(c, rps) ==
    IF rps > 0
    THEN IF CeilP95[rps] < 1 THEN 1 ELSE CeilP95[rps]
    ELSE c

\* runLoadTest's derivation of config.Concurrency.
DeriveConcurrency(c, rps) ==
    IF rps > 0 /\ c <= 0
    THEN IF CeilP95[rps] < 1 THEN 1 ELSE CeilP95[rps]
    ELSE c

\* Mutant of makeRequest: the error list of the body is not looked at.
makeRequestMutant(resp) ==
    IF resp.err
    THEN [StatusCode |-> 0, Success |-> FALSE]
    ELSE [StatusCode |-> resp.status, Success |-> resp.status = 200]

\* makeRequest: the RequestResult for what the transport gave. On a
\* transport error StatusCode keeps its zero value.
makeRequest(resp) ==
    IF resp.err
    THEN [StatusCode |-> 0, Success |-> FALSE]
    ELSE LET success == resp.status = 200
         IN [StatusCode |-> resp.status,
             Success |-> IF success /\ resp.json
                         THEN resp.errors = 0
                         ELSE success]

Outcomes == {makeRequest(r) : r \in Responses}

\* The result field of a worker that holds no RequestResult.
NoOutcome == [StatusCode |-> -1, Success |-> FALSE]

\* A worker's local state: where it is, and the result it holds.
At(pc) == [pc |-> pc, res |-> NoOutcome]

Holding(pc, r) == [pc |-> pc, res |-> r]

\* "returned", "cancelled", "marshalError" and "ctxDone" are the four ways a
\* worker ends: after recording its result, at the flag check of line 334, at
\* the marshal error of line 359, and at ctx.Done() of line 328.
Ended == {At("returned"), At("cancelled"), At("marshalError"), At("ctxDone")}

WorkerStates ==
    {At(pc) : pc \in {"select", "check", "prepare", "request", "release"}}
    \cup {Holding(pc, r) : pc \in {"addtime", "lock"}, r \in Outcomes}
    \cup Ended

\* The number of workers in the local states of S: the sum of w over S,
\* taken as the size of the bag holding w[s] + 1 copies of each s of S, less
\* one copy each.
CountIn(w, S) == BagCardinality([s \in S |-> w[s] + 1]) - Cardinality(S)

\* A non-blocking send on the buffered log channel (select with default).
TrySend(q, e) == IF Len(q) < LogChannelCap THEN Append(q, e) ELSE q

\* Mutant of BuildResults: the total is taken from the sample count of t.
BuildResultsMutant(s, f, n, codes) ==
    [nil |-> FALSE, Metrics |-> n, TotalRequests |-> n,
     SuccessfulReqs |-> s, FailedReqs |-> f, codesWhenBuilt |-> codes]

\* The TestResults a worker or the final return builds from the counters.
\* The counts are copied into the struct. Its StatusCodes field is the map
\* value statusCodes itself, a reference to the one map made at line 236:
\* StatusCodesOf is what a holder of the struct reads through it, and the
\* field codesWhenBuilt is history, the map's contents at the time of
\* building.
BuildResults(s, f, n, codes) ==
    [nil |-> FALSE, Metrics |-> n, TotalRequests |-> s + f,
     SuccessfulReqs |-> s, FailedReqs |-> f, codesWhenBuilt |-> codes]

StatusCodesOf(tr) == statusCodes

\* ------------------------------------------------------------------- Init
\* The program's own state as runLoadTest is entered. config.Concurrency may
\* be negative: loadConfigFromFile replaces only a 0.
ProgramInit ==
    /\ Concurrency \in -1..MaxConc
    /\ TotalReqs \in 1..MaxReqs
    /\ TargetRPS \in {0, 1, MaxRPS}
    /\ LogRequests \in BOOLEAN
    /\ mainpc = "derive"
    /\ requestCount = 0
    /\ semCap = -1
    /\ semaphore = 0
    /\ wg = 0
    /\ ctxDone = FALSE
    /\ tokens = -1
    /\ workers = [w \in WorkerStates |-> 0]
    /\ successCount = 0
    /\ failedCount = 0
    /\ statusCodes = [c \in StatusCodeSet |-> 0]
    /\ tCount = 0
    /\ testResults = NoResults
    /\ returned = NoResults
    /\ stopDeferred = FALSE
    /\ printedBy = {}
    /\ gracefulShutdown = 0
    /\ sigSnap = NoResults
    /\ sigpc = "wait"
    /\ exited = "no"
    /\ logger = "nil"
    /\ enabled = FALSE
    /\ started = FALSE
    /\ logChannel = <<>>
    /\ chanClosed = FALSE
    /\ logFile = <<>>
    /\ headerRows = 0
    /\ fileClosed = FALSE
    /\ logWorkers = 0
    /\ stopCalls = 0
    /\ logCalls = 0
    /\ startCalls = 0
    /\ dropped = 0

Init == ProgramInit /\ input = <<>> /\ output = <<>>

Running == exited = "no"

\* One worker goes from local state s to local state t.
Move(s, t) == workers' = [workers EXCEPT ![s] = @ - 1, ![t] = @ + 1]

\* ------------------------------------------------------------ AsyncLogger
\* Each method is an action on the logger's fields; its caller says what else
\* stays unchanged.

\* NewAsyncLogger(true, path) when os.Create succeeds.
NewAsyncLogger ==
    /\ enabled' = TRUE
    /\ started' = FALSE
    /\ logChannel' = <<>>
    /\ chanClosed' = FALSE
    /\ fileClosed' = FALSE
    /\ UNCHANGED <<logFile, headerRows, logWorkers, stopCalls, startCalls,
                   logCalls,
                   dropped>>

\* Mutant of Start: the started flag is not consulted.
StartMutant(headerOk) ==
    /\ startCalls' = startCalls + 1
    /\ UNCHANGED <<enabled, logChannel, chanClosed, logFile, fileClosed,
                   stopCalls, logCalls, dropped>>
    /\ IF ~enabled \/ ~headerOk
       THEN UNCHANGED <<headerRows, logWorkers, started>>
       ELSE /\ headerRows' = headerRows + 1
            /\ logWorkers' = logWorkers + 1
            /\ started' = TRUE

\* Start: headerOk is whether csvWriter.Write accepted the header row.
Start(headerOk) ==
    /\ startCalls' = startCalls + 1
    /\ UNCHANGED <<enabled, logChannel, chanClosed, logFile, fileClosed,
                   stopCalls, logCalls, dropped>>
    /\ IF ~enabled \/ started
       THEN UNCHANGED <<headerRows, logWorkers, started>>
       ELSE IF ~headerOk
       THEN UNCHANGED <<headerRows, logWorkers, started>>
       ELSE /\ headerRows' = headerRows + 1
            /\ logWorkers' = logWorkers + 1
            /\ started' = TRUE

\* Mutant of SendReady: a plain send, which waits while the buffer is full.
SendReadyMutant == Len(logChannel) < LogChannelCap

\* Lines 294-300: the select has a default branch, so it is always ready.
SendReady == TRUE

\* Mutant of Log: the started flag is not consulted.
LogMutant(entry) ==
    /\ logCalls' = logCalls + 1
    /\ IF ~enabled
       THEN UNCHANGED <<logChannel, dropped, exited>>
       ELSE IF chanClosed
       THEN exited' = "panic" /\ UNCHANGED <<logChannel, dropped>>
       ELSE /\ logChannel' = TrySend(logChannel, entry)
            /\ dropped' = IF Len(logChannel) < LogChannelCap
                           THEN dropped ELSE dropped + 1
            /\ UNCHANGED exited
    /\ UNCHANGED <<enabled, started, chanClosed, logFile, headerRows,
                   fileClosed, logWorkers, stopCalls, startCalls>>

\* Log: the select with a default branch. A send on a closed channel panics.
Log(entry) ==
    /\ logCalls' = logCalls + 1
    /\ (enabled /\ started) => SendReady
    /\ IF ~enabled \/ ~started
       THEN UNCHANGED <<logChannel, dropped, exited>>
       ELSE IF chanClosed
       THEN exited' = "panic" /\ UNCHANGED <<logChannel, dropped>>
       ELSE /\ logChannel' = TrySend(logChannel, entry)
            /\ dropped' = IF Len(logChannel) < LogChannelCap
                           THEN dropped ELSE dropped + 1
            /\ UNCHANGED exited
    /\ UNCHANGED <<enabled, started, chanClosed, logFile, headerRows,
                   fileClosed, logWorkers, stopCalls, startCalls>>

\* LogRequest builds the entry and hands it to Log.
LogRequest(statusCode) ==
    IF ~enabled
    THEN UNCHANGED <<alVars, exited>>
    ELSE Log([Status |-> statusCode])

\* Stop, up to its wait: closing a closed channel panics.
StopClose ==
    /\ enabled /\ started
    /\ stopCalls' = stopCalls + 1
    /\ IF chanClosed
       THEN exited' = "panic" /\ UNCHANGED chanClosed
       ELSE chanClosed' = TRUE /\ UNCHANGED exited
    /\ UNCHANGED <<enabled, started, logChannel, logFile, headerRows,
                   fileClosed, logWorkers, startCalls, logCalls,
                   dropped>>

\* Stop on a logger that is disabled or not started returns at once.
StopNoop ==
    /\ ~(enabled /\ started)
    /\ UNCHANGED <<alVars, exited>>

\* Mutant of StopFinish: Stop does not wait for the writer.
StopFinishMutant ==
    /\ fileClosed' = TRUE
    /\ started' = FALSE
    /\ UNCHANGED <<enabled, logChannel, chanClosed, logFile, headerRows,
                   logWorkers, stopCalls, startCalls, logCalls,
                   dropped>>

\* Stop, from al.waitGroup.Wait() on: the file is closed, started is reset.
StopFinish ==
    /\ logWorkers = 0
    /\ fileClosed' = TRUE
    /\ started' = FALSE
    /\ UNCHANGED <<enabled, logChannel, chanClosed, logFile, headerRows,
                   logWorkers, stopCalls, startCalls, logCalls,
                   dropped>>

\* One turn of logWorker's range loop: write and flush the next entry, or
\* leave the loop when the channel is closed and drained.
logWorker ==
    /\ Running
    /\ logWorkers > 0
    /\ IF logChannel # <<>>
       THEN /\ logFile' = Append(logFile, Head(logChannel))
            /\ logChannel' = Tail(logChannel)
            /\ UNCHANGED logWorkers
       ELSE /\ chanClosed
            /\ logWorkers' = logWorkers - 1
            /\ UNCHANGED <<logFile, logChannel>>
    /\ UNCHANGED <<enabled, started, chanClosed, headerRows, fileClosed,
                   stopCalls, startCalls, logCalls,
                   dropped>>
    /\ UNCHANGED <<logger, cfgVars, mainVars, workerVars, countVars, sigVars>>
    /\ UNCHANGED pureVars

\* ------------------------------------------------- runLoadTest: main line

\* Lines 219-227: derive the concurrency from the target rate.
Derive ==
    /\ Running /\ mainpc = "derive"
    /\ Concurrency' = DeriveConcurrency(Concurrency, TargetRPS)
    /\ mainpc' = "makeSem"
    /\ UNCHANGED <<TotalReqs, TargetRPS, LogRequests, requestCount, semCap,
                   ctxDone, tokens, returned, stopDeferred, workerVars,
                   countVars, sigVars, loggerVars>>
    /\ UNCHANGED pureVars

\* Line 257: semaphore := make(chan struct{}, config.Concurrency). make
\* panics on a negative size.
MakeSemaphore ==
    /\ Running /\ mainpc = "makeSem"
    /\ IF Concurrency < 0
       THEN exited' = "panic" /\ UNCHANGED <<semCap, mainpc>>
       ELSE /\ semCap' = Concurrency
            /\ mainpc' = "loggerNew"
            /\ UNCHANGED exited
    /\ UNCHANGED <<cfgVars, requestCount, ctxDone, tokens, returned,
                   stopDeferred, workerVars, countVars, gracefulShutdown,
                   sigSnap, sigpc, printedBy, loggerVars>>
    /\ UNCHANGED pureVars

\* Lines 284-293: MkdirAll and NewAsyncLogger; either may fail.
LoggerNew ==
    /\ Running /\ mainpc = "loggerNew"
    /\ \/ /\ ~LogRequests
          /\ mainpc' = "limiter"
          /\ UNCHANGED <<LogRequests, loggerVars>>
       \/ /\ LogRequests              \* MkdirAll fails: a warning, no logger
          /\ mainpc' = "limiter"
          /\ UNCHANGED <<LogRequests, loggerVars>>
       \/ /\ LogRequests              \* os.Create fails
          /\ LogRequests' = FALSE
          /\ mainpc' = "limiter"
          /\ UNCHANGED loggerVars
       \/ /\ LogRequests
          /\ logger' = "set"
          /\ NewAsyncLogger
          /\ mainpc' = "loggerStart"
          /\ UNCHANGED LogRequests
    /\ UNCHANGED <<Concurrency, TotalReqs, TargetRPS, requestCount, semCap,
                   ctxDone, tokens, returned, stopDeferred, workerVars,
                   countVars, sigVars>>
    /\ UNCHANGED pureVars

\* Lines 295-300: logger.Start(); on success defer logger.Stop().
LoggerStart ==
    /\ Running /\ mainpc = "loggerStart"
    /\ \E headerOk \in BOOLEAN :
          /\ Start(headerOk)
          /\ LogRequests' = headerOk
          /\ stopDeferred' = headerOk
    /\ mainpc' = "limiter"
    /\ UNCHANGED <<Concurrency, TotalReqs, TargetRPS, requestCount, semCap,
                   ctxDone, tokens, returned, logger, workerVars, countVars,
                   sigVars>>
    /\ UNCHANGED pureVars

\* Lines 305-308: the limiter starts with a full bucket of TargetRPS tokens.
MakeLimiter ==
    /\ Running /\ mainpc = "limiter"
    /\ tokens' = IF TargetRPS > 0 THEN TargetRPS ELSE -1
    /\ mainpc' = "loopCheck"
    /\ UNCHANGED <<cfgVars, requestCount, semCap, ctxDone, returned,
                   stopDeferred, workerVars, countVars, sigVars, loggerVars>>
    /\ UNCHANGED pureVars

\* Mutant of LoopExit: the loop also stops once a request has failed.
LoopExitMutant ==
    requestCount >= TotalReqs \/ gracefulShutdown = 1 \/ failedCount > 0

\* Lines 310-314: the dispatch loop ends when requestCount reaches
\* config.TotalReqs, or breaks when the flag is set. No result is looked at.
LoopExit == requestCount >= TotalReqs \/ gracefulShutdown = 1

\* Lines 310-314: the loop condition, then the flag check.
LoopCheck ==
    /\ Running /\ mainpc = "loopCheck"
    /\ mainpc' = IF LoopExit
                  THEN "wgWait"
                  ELSE IF tokens >= 0 THEN "limiterWait" ELSE "spawn"
    /\ UNCHANGED <<cfgVars, requestCount, semCap, ctxDone, tokens, returned,
                   stopDeferred, workerVars, countVars, sigVars, loggerVars>>
    /\ UNCHANGED pureVars

\* Lines 316-320: limiter.Wait(ctx) returns once a token is there; ctx is
\* cancelled by the deferred cancel alone, so Wait never fails in the loop.
LimiterWait ==
    /\ Running /\ mainpc = "limiterWait"
    /\ IF ctxDone
       THEN mainpc' = "wgWait" /\ UNCHANGED tokens
       ELSE /\ tokens >= 1
            /\ tokens' = tokens - 1
            /\ mainpc' = "spawn"
    /\ UNCHANGED <<cfgVars, requestCount, semCap, ctxDone, returned,
                   stopDeferred, workerVars, countVars, sigVars, loggerVars>>
    /\ UNCHANGED pureVars

\* Time passes while the loop waits on an empty bucket: one token arrives.
Refill ==
    /\ Running /\ mainpc = "limiterWait"
    /\ tokens = 0
    /\ tokens' = 1
    /\ UNCHANGED <<cfgVars, mainpc, requestCount, semCap, ctxDone, returned,
                   stopDeferred, workerVars, countVars, sigVars, loggerVars>>
    /\ UNCHANGED pureVars

\* Lines 322-324: wg.Add(1); go func() {...}().
Spawn ==
    /\ Running /\ mainpc = "spawn"
    /\ wg' = wg + 1
    /\ workers' = [workers EXCEPT ![At("select")] = @ + 1]
    /\ requestCount' = requestCount + 1
    /\ mainpc' = "loopCheck"
    /\ UNCHANGED <<cfgVars, semCap, ctxDone, tokens, returned, stopDeferred,
                   semaphore, countVars, sigVars, loggerVars>>
    /\ UNCHANGED pureVars

\* Mutant of WaitGroupZero: wg.Wait() does not wait.
WaitGroupZeroMutant == TRUE

\* The guard of wg.Wait() at line 398.
WaitGroupZero == wg = 0

\* Line 398: wg.Wait().
WgWait ==
    /\ Running /\ mainpc = "wgWait"
    /\ WaitGroupZero
    /\ mainpc' = "final"
    /\ UNCHANGED <<cfgVars, requestCount, semCap, ctxDone, tokens, returned,
                   stopDeferred, workerVars, countVars, sigVars, loggerVars>>
    /\ UNCHANGED pureVars

\* Lines 400-417: the return value is built from the counters.
Final ==
    /\ Running /\ mainpc = "final"
    /\ returned' = BuildResults(successCount, failedCount, tCount,
                                statusCodes)
    /\ mainpc' = IF stopDeferred THEN "deferStop" ELSE "deferCancel"
    /\ UNCHANGED <<cfgVars, requestCount, semCap, ctxDone, tokens,
                   stopDeferred, workerVars, countVars, sigVars, loggerVars>>
    /\ UNCHANGED pureVars

\* The deferred logger.Stop(), up to its wait.
DeferStop ==
    /\ Running /\ mainpc = "deferStop"
    /\ \/ StopClose /\ mainpc' = "stopWait"
       \/ StopNoop /\ mainpc' = "deferCancel"
    /\ UNCHANGED <<cfgVars, requestCount, semCap, ctxDone, tokens, returned,
                   stopDeferred, workerVars, countVars, gracefulShutdown, sigSnap,
                   sigpc, printedBy, logger>>
    /\ UNCHANGED pureVars

\* The deferred logger.Stop(), from its wait on.
StopWait ==
    /\ Running /\ mainpc = "stopWait"
    /\ StopFinish
    /\ mainpc' = "deferCancel"
    /\ UNCHANGED <<cfgVars, requestCount, semCap, ctxDone, tokens, returned,
                   stopDeferred, workerVars, countVars, sigVars, logger>>
    /\ UNCHANGED pureVars

\* The deferred cancel() calls (lines 278, 280).
DeferCancel ==
    /\ Running /\ mainpc = "deferCancel"
    /\ ctxDone' = TRUE
    /\ mainpc' = "mainAssign"
    /\ UNCHANGED <<cfgVars, requestCount, semCap, tokens, returned,
                   stopDeferred, workerVars, countVars, sigVars, loggerVars>>
    /\ UNCHANGED pureVars

\* main, lines 202-203: testResults = results.
MainAssign ==
    /\ Running /\ mainpc = "mainAssign"
    /\ testResults' = returned
    /\ mainpc' = "print"
    /\ UNCHANGED <<cfgVars, requestCount, semCap, ctxDone, tokens, returned,
                   stopDeferred, workerVars, successCount, failedCount,
                   statusCodes, tCount, sigVars, loggerVars>>
    /\ UNCHANGED pureVars

\* main, lines 204-210: printResults and saveResults.
MainPrint ==
    /\ Running /\ mainpc = "print"
    /\ printedBy' = printedBy \cup {"main"}
    /\ mainpc' = "return"
    /\ UNCHANGED <<cfgVars, requestCount, semCap, ctxDone, tokens, returned,
                   stopDeferred, workerVars, countVars, gracefulShutdown, sigSnap,
                   sigpc, exited, loggerVars>>
    /\ UNCHANGED pureVars

\* main returns: the process exits.
MainReturn ==
    /\ Running /\ mainpc = "return"
    /\ exited' = "main"
    /\ mainpc' = "exited"
    /\ UNCHANGED <<cfgVars, requestCount, semCap, ctxDone, tokens, returned,
                   stopDeferred, workerVars, countVars, gracefulShutdown, sigSnap,
                   sigpc, printedBy, loggerVars>>
    /\ UNCHANGED pureVars

\* ---------------------------------------------- runLoadTest: the workers
\* The worker goroutines are anonymous closures: the model keeps, for every
\* local state a worker can be in, the number of workers in it.

\* Mutant of SlotFree: the send never waits for a free slot.
SlotFreeMutant == TRUE

\* The guard of the send `semaphore <- struct{}{}` (line 330).
SlotFree == semaphore < semCap

\* Lines 327-331: the select on ctx.Done() and the semaphore.
Select ==
    /\ Running /\ workers[At("select")] > 0
    /\ IF ctxDone
       THEN /\ Move(At("select"), At("ctxDone"))
            /\ wg' = wg - 1
            /\ UNCHANGED semaphore
       ELSE /\ SlotFree
            /\ semaphore' = semaphore + 1
            /\ Move(At("select"), At("check"))
            /\ UNCHANGED wg
    /\ UNCHANGED <<cfgVars, mainVars, countVars, sigVars, loggerVars>>
    /\ UNCHANGED pureVars

\* Mutant of FlagSeen: the worker does not look at the flag.
FlagSeenMutant == FALSE

\* What the worker reads at line 334.
FlagSeen == gracefulShutdown = 1

\* Lines 334-336: the flag check after the slot is acquired; the deferred
\* release and wg.Done() run when the worker returns.
Check ==
    /\ Running /\ workers[At("check")] > 0
    /\ IF FlagSeen
       THEN /\ Move(At("check"), At("cancelled"))
            /\ semaphore' = semaphore - 1
            /\ wg' = wg - 1
       ELSE /\ Move(At("check"), At("prepare"))
            /\ UNCHANGED <<semaphore, wg>>
    /\ UNCHANGED <<cfgVars, mainVars, countVars, sigVars, loggerVars>>
    /\ UNCHANGED pureVars

\* Mutant of Abandon: the worker returns without its deferred release.
AbandonMutant ==
    /\ Move(At("prepare"), At("marshalError"))
    /\ wg' = wg - 1
    /\ UNCHANGED semaphore

\* Lines 359-362: json.Marshal failed; the worker prints the error and
\* returns, which runs its deferred `<-semaphore` and wg.Done().
Abandon ==
    /\ Move(At("prepare"), At("marshalError"))
    /\ semaphore' = semaphore - 1
    /\ wg' = wg - 1

\* Lines 338-364: the payload is generated and marshalled; on success
\* makeRequest is called, on failure the worker returns.
Prepare ==
    /\ Running /\ workers[At("prepare")] > 0
    /\ \E marshalOk \in BOOLEAN :
          IF marshalOk
          THEN /\ Move(At("prepare"), At("request"))
               /\ UNCHANGED <<semaphore, wg>>
          ELSE Abandon
    /\ UNCHANGED <<cfgVars, mainVars, countVars, sigVars, loggerVars>>
    /\ UNCHANGED pureVars

\* Lines 364-368: makeRequest returns its RequestResult, which goes to the
\* logger if there is one.
ReturnFromRequest(result) ==
    /\ Running /\ workers[At("request")] > 0
    /\ Move(At("request"), Holding("addtime", result))
    /\ IF logger = "set" /\ enabled
       THEN LogRequest(result.StatusCode)
       ELSE UNCHANGED <<alVars, exited>>
    /\ UNCHANGED <<cfgVars, mainVars, semaphore, wg, countVars,
                   gracefulShutdown, sigSnap, sigpc, printedBy, logger>>

\* makeRequest returns what it makes of some response, an element of
\* Outcomes.
Request ==
    /\ \E result \in Outcomes : ReturnFromRequest(result)
    /\ UNCHANGED pureVars

\* Line 370: t.AddTime(result.Duration), outside mu.
AddTime ==
    /\ Running
    /\ \E r \in Outcomes :
          /\ workers[Holding("addtime", r)] > 0
          /\ Move(Holding("addtime", r), Holding("lock", r))
    /\ tCount' = tCount + 1
    /\ UNCHANGED <<cfgVars, mainVars, semaphore, wg, successCount,
                   failedCount, statusCodes, testResults, sigVars, loggerVars>>
    /\ UNCHANGED pureVars

\* Lines 373-378: the counters after one result is folded in.
NextSuccess(r) == IF r.Success THEN successCount + 1 ELSE successCount

\* Mutant of NextFailed: a result without a status code is not counted.
NextFailedMutant(r) ==
    IF r.Success \/ r.StatusCode = 0 THEN failedCount ELSE failedCount + 1

NextFailed(r) == IF r.Success THEN failedCount ELSE failedCount + 1

NextStatusCodes(r) ==
    [statusCodes EXCEPT ![r.StatusCode] = statusCodes[r.StatusCode] + 1]

\* Lines 372-387: mu.Lock(), the critical section, mu.Unlock(). The section
\* is one step: mu keeps every other worker out of it.
Record ==
    /\ Running
    /\ \E r \in Outcomes :
          /\ workers[Holding("lock", r)] > 0
          /\ Move(Holding("lock", r), At("release"))
          /\ successCount' = NextSuccess(r)
          /\ failedCount' = NextFailed(r)
          /\ statusCodes' = NextStatusCodes(r)
    /\ testResults' = BuildResults(successCount', failedCount', tCount,
                                   statusCodes')
    /\ UNCHANGED <<cfgVars, mainVars, semaphore, wg, tCount, sigVars,
                   loggerVars>>
    /\ UNCHANGED pureVars

\* Mutant of Release: the worker returns without receiving from semaphore.
ReleaseMutant ==
    /\ Running /\ workers[At("release")] > 0
    /\ wg' = wg - 1
    /\ Move(At("release"), At("returned"))
    /\ UNCHANGED <<cfgVars, mainVars, semaphore, countVars, sigVars,
                   loggerVars>>
    /\ UNCHANGED pureVars

\* The worker returns: the deferred `<-semaphore` and wg.Done().
Release ==
    /\ Running /\ workers[At("release")] > 0
    /\ semaphore' = semaphore - 1
    /\ wg' = wg - 1
    /\ Move(At("release"), At("returned"))
    /\ UNCHANGED <<cfgVars, mainVars, countVars, sigVars, loggerVars>>
    /\ UNCHANGED pureVars

\* ------------------------------------------------- the signal handler

\* Lines 417-419 of utils.go: the signal arrives and the flag is stored.
Signal ==
    /\ Running /\ sigpc = "wait"
    /\ gracefulShutdown' = 1
    /\ sigpc' = "sleep"
    /\ UNCHANGED <<cfgVars, mainVars, workerVars, countVars, sigSnap, exited,
                   printedBy, loggerVars>>
    /\ UNCHANGED pureVars

\* Lines 421-424: the two seconds are over; testResults is read and, when it
\* is not nil, becomes the argument of printResults.
SigWake ==
    /\ Running /\ sigpc = "sleep"
    /\ sigpc' = IF testResults = NoResults THEN "exit" ELSE "print"
    /\ sigSnap' = testResults
    /\ UNCHANGED <<cfgVars, mainVars, workerVars, countVars,
                   gracefulShutdown, exited, printedBy, loggerVars>>
    /\ UNCHANGED pureVars

\* Lines 424-431: printResults and saveResults of the partial results return.
SigPrint ==
    /\ Running /\ sigpc = "print"
    /\ printedBy' = printedBy \cup {"signal"}
    /\ sigpc' = "exit"
    /\ sigSnap' = NoResults
    /\ UNCHANGED <<cfgVars, mainVars, workerVars, countVars,
                   gracefulShutdown, exited, loggerVars>>
    /\ UNCHANGED pureVars

\* Line 434: os.Exit(0).
SigExit ==
    /\ Running /\ sigpc = "exit"
    /\ exited' = "signal"
    /\ sigpc' = "exited"
    /\ UNCHANGED <<cfgVars, mainVars, workerVars, countVars,
                   gracefulShutdown, sigSnap, printedBy, loggerVars>>
    /\ UNCHANGED pureVars

\* ------------------------------------------------------- specification
MainStep ==
    \/ Derive \/ MakeSemaphore \/ LoggerNew \/ LoggerStart \/ MakeLimiter
    \/ LoopCheck \/ LimiterWait \/ Spawn \/ WgWait \/ Final \/ DeferStop
    \/ StopWait \/ DeferCancel \/ MainAssign \/ MainPrint \/ MainReturn

WorkerStep ==
    \/ Select \/ Check \/ Prepare \/ Request \/ AddTime \/ Record
    \/ Release

SignalStep == Signal \/ SigWake \/ SigPrint \/ SigExit

Next ==
    \/ MainStep
    \/ WorkerStep
    \/ logWorker
    \/ SignalStep
    \/ Refill

Spec == Init /\ [][Next]_vars

\* The steps of the program's own goroutines: everything but the arrival of
\* a signal.
ProgramStep == MainStep \/ WorkerStep \/ logWorker \/ Refill

\* The Go scheduler runs every goroutine that can run, every makeRequest call
\* returns, and the limiter's clock advances.
FairSpec ==
    /\ Spec
    /\ WF_vars(MainStep)
    /\ WF_vars(WorkerStep)
    /\ WF_vars(logWorker)
    /\ WF_vars(Refill)
    /\ WF_vars(SigWake \/ SigPrint \/ SigExit)

\* ------------------------------------------- the logger on its own
\* The AsyncLogger driven as runLoadTest drives it: Start, then Log calls
\* from the producers while the writer runs, then Stop when no producer is
\* left; calls after Stop are allowed too. requestCount counts the Log calls
\* made here.

\* Entries a producer left in the channel while the writer was not scheduled.
Backlog == [i \in 1..(LogChannelCap - 1) |-> [Status |-> 200]]

\* Either a logger fresh from NewAsyncLogger, or a started one holding a
\* backlog one short of the channel's capacity.
LoggerInit ==
    /\ Concurrency = 1 /\ TotalReqs = 1 /\ TargetRPS = 0
    /\ LogRequests = TRUE
    /\ mainpc = "harness"
    /\ requestCount = 0
    /\ semCap = -1 /\ semaphore = 0 /\ wg = 0
    /\ ctxDone = FALSE
    /\ tokens = -1
    /\ workers = [w \in WorkerStates |-> 0]
    /\ successCount = 0 /\ failedCount = 0
    /\ statusCodes = [c \in StatusCodeSet |-> 0]
    /\ tCount = 0
    /\ testResults = NoResults /\ returned = NoResults
    /\ stopDeferred = FALSE
    /\ printedBy = {}
    /\ gracefulShutdown = 0
    /\ sigSnap = NoResults
    /\ input = <<>> /\ output = <<>>
    /\ sigpc = "wait"
    /\ exited = "no"
    /\ logger = "set"
    /\ enabled = TRUE
    /\ chanClosed = FALSE
    /\ logFile = <<>>
    /\ fileClosed = FALSE
    /\ stopCalls = 0
    /\ dropped = 0
    /\ \/ /\ started = FALSE
          /\ logChannel = <<>>
          /\ headerRows = 0
          /\ logWorkers = 0
          /\ logCalls = 0
          /\ startCalls = 0
       \/ /\ started = TRUE
          /\ logChannel = Backlog
          /\ headerRows = 1
          /\ logWorkers = 1
          /\ logCalls = Len(Backlog)
          /\ startCalls = 1

dispatchVars == <<cfgVars, semCap, ctxDone, tokens, returned, stopDeferred,
                  workerVars, countVars, gracefulShutdown, sigSnap, sigpc, printedBy,
                  logger>>

\* A call of Start, before any Stop.
CallStart ==
    /\ Running /\ mainpc = "harness"
    /\ stopCalls = 0
    /\ startCalls < MaxStartCalls
    /\ \E headerOk \in BOOLEAN : Start(headerOk)
    /\ UNCHANGED <<dispatchVars, mainpc, requestCount, exited>>
    /\ UNCHANGED pureVars

\* A producer may make another call of LogRequest.
CanLog == Running /\ mainpc = "harness" /\ requestCount < MaxLogCalls

\* A call of LogRequest.
CallLog ==
    /\ CanLog
    /\ \E status \in {200, 500} : LogRequest(status)
    /\ requestCount' = requestCount + 1
    /\ UNCHANGED <<dispatchVars, mainpc>>
    /\ UNCHANGED pureVars

\* A call of Stop, up to its wait.
CallStop ==
    /\ Running /\ mainpc = "harness"
    /\ \/ StopClose /\ mainpc' = "harnessStop"
       \/ StopNoop /\ mainpc' = "harness"
    /\ UNCHANGED <<dispatchVars, requestCount>>
    /\ UNCHANGED pureVars

\* The call of Stop returns.
ReturnStop ==
    /\ Running /\ mainpc = "harnessStop"
    /\ StopFinish
    /\ mainpc' = "harness"
    /\ UNCHANGED <<dispatchVars, requestCount, exited>>
    /\ UNCHANGED pureVars

LoggerNext == CallStart \/ CallLog \/ CallStop \/ ReturnStop \/ logWorker

LoggerSpec == LoggerInit /\ [][LoggerNext]_vars

\* ------------------------------------------- makeRequest and its counting
\* Two workers about to call makeRequest, the dispatcher waiting for them;
\* input and output keep the last response and the RequestResult made of it.
RequestInit ==
    /\ Concurrency = 2 /\ TotalReqs = 2 /\ TargetRPS = 0
    /\ LogRequests = FALSE
    /\ mainpc = "wgWait"
    /\ requestCount = 2
    /\ semCap = 2 /\ semaphore = 2 /\ wg = 2
    /\ ctxDone = FALSE
    /\ tokens = -1
    /\ workers = [w \in WorkerStates |-> IF w = At("request") THEN 2 ELSE 0]
    /\ successCount = 0 /\ failedCount = 0
    /\ statusCodes = [c \in StatusCodeSet |-> 0]
    /\ tCount = 0
    /\ testResults = NoResults /\ returned = NoResults
    /\ stopDeferred = FALSE
    /\ printedBy = {}
    /\ gracefulShutdown = 0
    /\ sigSnap = NoResults
    /\ sigpc = "wait"
    /\ exited = "no"
    /\ logger = "nil"
    /\ enabled = FALSE /\ started = FALSE
    /\ logChannel = <<>> /\ chanClosed = FALSE
    /\ logFile = <<>> /\ headerRows = 0 /\ fileClosed = FALSE
    /\ logWorkers = 0
    /\ stopCalls = 0 /\ startCalls = 0 /\ logCalls = 0 /\ dropped = 0
    /\ input = <<>> /\ output = <<>>

\* Request, with the response and the result kept.
RequestTraced ==
    \E resp \in Responses :
        /\ ReturnFromRequest(makeRequest(resp))
        /\ input' = <<resp>>
        /\ output' = <<makeRequest(resp)>>

RequestNext == RequestTraced \/ AddTime \/ Record \/ Release

RequestSpec == RequestInit /\ [][RequestNext]_vars

\* ------------------------------------------------- random placeholders
\* A Go string is a sequence of one-character strings. A template text is a
\* sequence of pieces, as the regular expressions of lines 65-73 cut it: a
\* piece [tok |-> "lit", args |-> <<s>>] is literal text s, any other piece
\* is a placeholder with the submatches match[1], match[2] in args.

\* The part of generateRandomString's charset used here.
Charset == {"a", "1"}

DigitSeq == <<"0", "1", "2", "3", "4", "5", "6", "7", "8", "9">>

IsDigit(c) == \E i \in 1..Len(DigitSeq) : DigitSeq[i] = c

DigitVal(c) == (CHOOSE i \in 1..Len(DigitSeq) : DigitSeq[i] = c) - 1

\* fmt.Sprintf("%v", n) for an int n >= 0.
RECURSIVE FormatInt(_)
FormatInt(n) ==
    IF n < 10 THEN <<DigitSeq[n + 1]>>
    ELSE Append(FormatInt(n \div 10), DigitSeq[(n % 10) + 1])

\* strconv.Atoi on a string of digits (what (\d+) matches).
RECURSIVE Atoi(_)
Atoi(s) ==
    IF s = <<>> THEN 0
    ELSE 10 * Atoi(SubSeq(s, 1, Len(s) - 1)) + DigitVal(s[Len(s)])

\* strconv.ParseFloat succeeds. The strings of this model are made of
\* letters, digits, commas and spaces only; of those ParseFloat accepts
\* exactly the non-empty strings of digits, with the value Atoi gives.
ParsesAsFloat(s) == s # <<>> /\ \A i \in 1..Len(s) : IsDigit(s[i])

\* strings.Split(s, ",").
RECURSIVE Split(_)
Split(s) ==
    IF \A i \in 1..Len(s) : s[i] # ","
    THEN <<s>>
    ELSE LET i == CHOOSE j \in 1..Len(s) :
                    s[j] = "," /\ \A k \in 1..(j - 1) : s[k] # ","
         IN <<SubSeq(s, 1, i - 1)>> \o Split(SubSeq(s, i + 1, Len(s)))

\* strings.TrimSpace.
RECURSIVE TrimSpace(_)
TrimSpace(s) ==
    IF s = <<>> THEN s
    ELSE IF Head(s) = " " THEN TrimSpace(Tail(s))
    ELSE IF s[Len(s)] = " " THEN TrimSpace(SubSeq(s, 1, Len(s) - 1))
    ELSE s

\* Values of type interface{}: a kind and the value.
StringValue(s) == [kind |-> "string", val |-> s]

IntValue(n) == [kind |-> "int", val |-> n]

NilValue == [kind |-> "nil", val |-> 0]

ListValue(l) == [kind |-> "list", val |-> l]

MapValue(m) == [kind |-> "map", val |-> m]

\* The defaults of generateRandomString and generateRandomNumber.
DefaultLength == 10
DefaultMin == 1
DefaultMax == 1000

\* A generator is the set of values the random source can make it return.
generateRandomString(match) ==
    LET length == IF match # <<>> /\ match[1] # <<>>
                  THEN Atoi(match[1]) ELSE DefaultLength
    IN [1..length -> Charset]

\* mathrand.Intn(max-min+1) + min. Intn panics when max < min, a case the
\* texts studied here leave out.
generateRandomNumber(match) ==
    LET given == Len(match) >= 2 /\ match[1] # <<>> /\ match[2] # <<>>
        min == IF given THEN Atoi(match[1]) ELSE DefaultMin
        max == IF given THEN Atoi(match[2]) ELSE DefaultMax
    IN {r + min : r \in 0..(max - min)}

generateRandomInt(match) == generateRandomNumber(match)

generateRandomChoice(match) ==
    LET choices == Split(match[1])
    IN {TrimSpace(choices[i]) : i \in 1..Len(choices)}

\* Line 83: the text a match is replaced with, fmt.Sprintf("%v", replacement).
Replacement(piece) ==
    CASE piece.tok = "lit" -> {piece.args[1]}
      [] piece.tok = "string" -> generateRandomString(piece.args)
      [] piece.tok = "int" ->
            {FormatInt(n) : n \in generateRandomInt(piece.args)}
      [] piece.tok = "choice" -> generateRandomChoice(piece.args)

\* Lines 76-85: result once every match has been replaced.
RECURSIVE Substitute(_)
Substitute(text) ==
    IF text = <<>> THEN {<<>>}
    ELSE {h \o t : h \in Replacement(Head(text)),
                   t \in Substitute(Tail(text))}

\* result != text: a replacement holds no brace, so the result differs from
\* the text exactly when a placeholder was replaced.
Replaced(text) == \E i \in 1..Len(text) : text[i].tok # "lit"

\* Lines 88-98: a changed result that parses as a number is returned as a
\* number; the numbers of this model are whole, so as an int.
Coerce(text, result) ==
    IF Replaced(text) /\ ParsesAsFloat(result)
    THEN IntValue(Atoi(result))
    ELSE StringValue(result)

\* The values replaceRandomPlaceholders(text) can return.
replaceRandomPlaceholders(text) ==
    {Coerce(text, result) : result \in Substitute(text)}

\* The texts studied: a literal character, and one placeholder, alone or
\* behind a literal character.
\* The placeholders are random.int(min,max) with min <= max <= MaxInt,
\* random.string(n) with n <= MaxLen, and random.choice over three lists.
Lit(s) == [tok |-> "lit", args |-> <<s>>]

IntPlaceholders ==
    UNION {{[tok |-> "int", args |-> <<FormatInt(min), FormatInt(max)>>] :
               max \in min..MaxInt} : min \in 0..MaxInt}

StringPlaceholders ==
    {[tok |-> "string", args |-> <<FormatInt(n)>>] : n \in 0..MaxLen}

ChoiceLists == {<<"a", ",", "b">>, <<"a", ",", " ", "1">>,
                <<" ", "a", "a", " ", ",", "7">>}

ChoicePlaceholders == {[tok |-> "choice", args |-> <<l>>] : l \in ChoiceLists}

Placeholders == IntPlaceholders \cup StringPlaceholders \cup ChoicePlaceholders

Texts ==
    {<<Lit(<<c>>)>> : c \in Charset}
    \cup {<<p>> : p \in Placeholders}
    \cup {<<Lit(<<c>>), p>> : c \in Charset, p \in Placeholders}

\* Every variable but input and output, at rest.
Idle ==
    /\ Concurrency = 1 /\ TotalReqs = 1 /\ TargetRPS = 0
    /\ LogRequests = FALSE
    /\ mainpc = "idle"
    /\ requestCount = 0
    /\ semCap = -1 /\ semaphore = 0 /\ wg = 0
    /\ ctxDone = FALSE
    /\ tokens = -1
    /\ workers = [w \in WorkerStates |-> 0]
    /\ successCount = 0 /\ failedCount = 0
    /\ statusCodes = [c \in StatusCodeSet |-> 0]
    /\ tCount = 0
    /\ testResults = NoResults /\ returned = NoResults
    /\ stopDeferred = FALSE
    /\ printedBy = {}
    /\ gracefulShutdown = 0
    /\ sigSnap = NoResults
    /\ sigpc = "wait"
    /\ exited = "no"
    /\ logger = "nil"
    /\ enabled = FALSE /\ started = FALSE
    /\ logChannel = <<>> /\ chanClosed = FALSE
    /\ logFile = <<>> /\ headerRows = 0 /\ fileClosed = FALSE
    /\ logWorkers = 0
    /\ stopCalls = 0 /\ startCalls = 0 /\ logCalls = 0 /\ dropped = 0

programVars == <<cfgVars, mainVars, workerVars, countVars, sigVars,
                 loggerVars>>

PlaceholderInit ==
    /\ Idle
    /\ input \in {<<text>> : text \in Texts}
    /\ output = <<>>

\* One call of replaceRandomPlaceholders(text); the string text is not
\* written to.
CallReplace ==
    /\ output = <<>>
    /\ output' \in {<<v>> : v \in replaceRandomPlaceholders(input[1])}
    /\ UNCHANGED <<input, programVars>>

PlaceholderSpec == PlaceholderInit /\ [][CallReplace]_vars

\* ------------------------------------------------------ variable trees
\* The ways to pick one element from each set of a function of sets.
Choices(P) ==
    {f \in [DOMAIN P -> UNION {P[k] : k \in DOMAIN P}] :
        \A k \in DOMAIN P : f[k] \in P[k]}

\* Mutant of processRandomValue: the result slice is made with length 0 and
\* maps are returned as they are.
processRandomValueMutant(value) ==
    CASE value.kind = "string" -> replaceRandomPlaceholders(value.val)
      [] value.kind = "list" -> {ListValue(<<>>)}
      [] OTHER -> {value}

\* The values processRandomValue(value) can return: a fresh map over the
\* same keys, a fresh slice of the same length, the expansion of a string,
\* or the value itself.
RECURSIVE processRandomValue(_)
processRandomValue(value) ==
    CASE value.kind = "string" -> replaceRandomPlaceholders(value.val)
      [] value.kind = "map" ->
            {MapValue(m) : m \in Choices([k \in DOMAIN value.val |->
                                            processRandomValue(value.val[k])])}
      [] value.kind = "list" ->
            {ListValue(l) : l \in Choices([i \in DOMAIN value.val |->
                                             processRandomValue(value.val[i])])}
      [] OTHER -> {value}

\* The values generateRandomVariables(baseVars) can return.
generateRandomVariables(baseVars) ==
    IF baseVars = NilValue
    THEN {NilValue}
    ELSE {MapValue(m) : m \in Choices([k \in DOMAIN baseVars.val |->
                                         processRandomValue(baseVars.val[k])])}

\* The trees studied. Leaves: a plain string, two strings that are one
\* placeholder, an int and a nil.
Leaves ==
    {StringValue(<<Lit(<<"a">>)>>),
     StringValue(<<[tok |-> "int", args |-> <<<<"1">>, <<"2">>>>]>>),
     StringValue(<<[tok |-> "string", args |-> <<<<"1">>>>]>>),
     IntValue(7),
     NilValue}

\* Lists of up to MaxLen elements of S, and maps from some of the keys K to
\* elements of S.
ListsOf(S) == UNION {{ListValue(l) : l \in [1..n -> S]} : n \in 0..MaxLen}

MapsOf(K, S) == UNION {{MapValue(m) : m \in [D -> S]} : D \in SUBSET K}

\* A variable is a leaf, a list of leaves or a map of leaves; baseVars is nil
\* or a map with a leaf "id", a variable "tags", both or neither.
Variables == Leaves \cup ListsOf(Leaves) \cup MapsOf({"x"}, Leaves)

BaseVars ==
    {NilValue}
    \cup {MapValue(id @@ tags) :
            id \in {<<>>} \cup {[k \in {"id"} |-> l] : l \in Leaves},
            tags \in {<<>>} \cup {[k \in {"tags"} |-> v] : v \in Variables}}

ExpandInit ==
    /\ Idle
    /\ input \in {<<baseVars>> : baseVars \in BaseVars}
    /\ output = <<>>

\* One call of generateRandomVariables(baseVars): the result is built in
\* maps and slices made by the call, baseVars is only read.
CallGenerate ==
    /\ output = <<>>
    /\ output' \in {<<v>> : v \in generateRandomVariables(input[1])}
    /\ UNCHANGED <<input, programVars>>

ExpandSpec == ExpandInit /\ [][CallGenerate]_vars

\* ---------------------------------------------------- latency statistics
\* t.Calc() is the tachymeter library's, whose code is no file of this
\* repository. The statistics are modelled as the specification words them:
\* on a sorted copy of the window, percentiles by nearest rank without
\* interpolation. Latencies are whole numbers of time units; a percentile is
\* given in tenths of a percent.

\* The ordered copy of the window.
SortedCopy(window) == SortSeq(window, LAMBDA a, b : a < b)

\* Mutant of Percentile: the rank is taken in the window as it was filled.
PercentileMutant(window, p) ==
    window[(p * Len(window) + 999) \div 1000]

\* Nearest rank: the element of rank ceil(p/1000 * n) of the ordered copy.
Percentile(window, p) ==
    SortedCopy(window)[(p * Len(window) + 999) \div 1000]

RECURSIVE Sum(_)
Sum(s) == IF s = <<>> THEN 0 ELSE Head(s) + Sum(Tail(s))

\* The latency statistics of a snapshot of a non-empty window.
Calc(window) ==
    [Avg |-> Sum(window) \div Len(window),
     Min |-> SortedCopy(window)[1],
     Max |-> SortedCopy(window)[Len(window)],
     P50 |-> Percentile(window, 500),
     P75 |-> Percentile(window, 750),
     P95 |-> Percentile(window, 950),
     P99 |-> Percentile(window, 990),
     P999 |-> Percentile(window, 999)]

\* Windows of 1..MaxWindow latencies of 1..MaxLatency.
Windows == UNION {[1..n -> 1..MaxLatency] : n \in 1..MaxWindow}

WindowInit ==
    /\ Idle
    /\ input \in {<<window>> : window \in Windows}
    /\ output = <<>>

\* One snapshot of the window.
CallCalc ==
    /\ output = <<>>
    /\ output' = <<Calc(input[1])>>
    /\ UNCHANGED <<input, programVars>>

WindowSpec == WindowInit /\ [][CallCalc]_vars

\* --------------------------------------------- the derived concurrency
\* Runs of runLoadTest for two requests that remember the configuration they
\* were entered with: input holds config.Concurrency and config.TargetRPS as
\* passed in.
DeriveInit ==
    /\ ProgramInit
    /\ TotalReqs = 2
    /\ input = <<Concurrency, TargetRPS>>
    /\ output = <<>>

DeriveSpec == DeriveInit /\ [][Next]_vars

\* ------------------------------------------------------------ properties

\* Local states of a worker that holds a RequestResult.
HoldingResult == {Holding(pc, r) : pc \in {"addtime", "lock"}, r \in Outcomes}

\* Local states of a worker that holds a semaphore slot.
HoldingSlot ==
    {At("check"), At("prepare"), At("request"), At("release")}
    \cup HoldingResult

\* Workers that hold a slot, and makeRequest calls in flight.
Holders == CountIn(workers, HoldingSlot)

InFlight == workers[At("request")]

\* C1: with Concurrency = C >= 1, at every instant at most C workers hold a
\* semaphore slot, and so at most C makeRequest calls are in flight.
C1_ConcurrencyBound ==
    Concurrency >= 1 => (Holders <= Concurrency /\ InFlight <= Concurrency)

\* All C slots are taken by calls in flight while another worker waits.
C1_Witness ==
    /\ Concurrency >= 1
    /\ InFlight = Concurrency
    /\ workers[At("select")] > 0

\* A published TestResults has consistent counts within the configured total.
Consistent(tr) ==
    tr # NoResults =>
        /\ tr.SuccessfulReqs + tr.FailedReqs = tr.TotalRequests
        /\ tr.TotalRequests <= TotalReqs

\* C2: every TestResults runLoadTest publishes (the global testResults, the
\* return value) has SuccessfulReqs + FailedReqs = TotalRequests <= TotalReqs.
C2_PublishedCounts == Consistent(testResults) /\ Consistent(returned)

\* A return value with successes and failures in it.
C2_Witness ==
    /\ returned # NoResults
    /\ returned.SuccessfulReqs > 0
    /\ returned.FailedReqs > 0

\* Outcomes that have been recorded: workers past the critical section.
Recorded == workers[At("release")] + workers[At("returned")]

HistogramTotal == CountIn(statusCodes, StatusCodeSet)

\* C3: whatever the order in which workers complete, successCount +
\* failedCount and the sum of the histogram both equal the number of outcomes
\* recorded.
C3_CountedOnce ==
    /\ successCount + failedCount = Recorded
    /\ HistogramTotal = Recorded

\* Two outcomes of different kinds are recorded, one of them without a status.
C3_Witness ==
    /\ Recorded >= 2
    /\ statusCodes[0] >= 1
    /\ successCount >= 1

\* Calls of makeRequest so far: workers at or past line 364.
Invoked ==
    workers[At("request")] + workers[At("release")] + workers[At("returned")]
    + CountIn(workers, HoldingResult)

\* C4: when the flag is never set and every payload marshals, runLoadTest
\* has called makeRequest exactly TotalReqs times when it returns, and returns
\* TotalRequests = TotalReqs, whatever the outcomes were.
C4_AllDispatched ==
    /\ Invoked <= TotalReqs
    /\ (returned # NoResults /\ gracefulShutdown = 0
            /\ workers[At("marshalError")] = 0)
        => (Invoked = TotalReqs /\ returned.TotalRequests = TotalReqs)

\* A run of several requests, some failed, none skipped, has returned.
C4_Witness ==
    /\ returned # NoResults
    /\ gracefulShutdown = 0
    /\ workers[At("marshalError")] = 0
    /\ TotalReqs >= 2
    /\ returned.FailedReqs >= 1
    /\ returned.TotalRequests = TotalReqs

\* C5: the return value is built only after every spawned worker has
\* finished: it counts every outcome a worker recorded, and no worker changes
\* the counters afterwards.
C5_FinalAfterWorkers ==
    returned # NoResults =>
        /\ CountIn(workers, Ended) = requestCount
        /\ returned.TotalRequests = Recorded
        /\ returned.SuccessfulReqs = successCount
        /\ returned.FailedReqs = failedCount
        /\ returned.Metrics = tCount
        /\ HistogramTotal = returned.TotalRequests

\* The return value of a run in which several workers recorded a result.
C5_Witness == returned # NoResults /\ returned.TotalRequests >= 2

\* C7: once the flag is set, the dispatch loop leaves at its next flag check,
\* a worker that makes its flag check returns without calling makeRequest,
\* and a makeRequest call begins only in a worker that was past that check.
C7_NoNewRequest ==
    [][gracefulShutdown = 1 =>
        /\ mainpc = "loopCheck" => mainpc' \in {"loopCheck", "wgWait"}
        /\ workers'[At("check")] < workers[At("check")]
              => workers'[At("cancelled")] = workers[At("cancelled")] + 1
        /\ workers'[At("request")] > workers[At("request")]
              => workers'[At("prepare")] < workers[At("prepare")]]_vars

\* After the signal one worker returned at its flag check while a request
\* that had passed the check earlier is in flight.
C7_Witness ==
    /\ gracefulShutdown = 1
    /\ workers[At("cancelled")] > 0
    /\ workers[At("request")] > 0

Unfinished ==
    workers[At("prepare")] + workers[At("request")]
    + CountIn(workers, HoldingResult)

\* C8: the process never exits while a request that passed the cancellation
\* check has not run to completion and been recorded.
C8_NoAbort == exited # "no" => Unfinished = 0

\* C9: when the process exits after the logger was started, Stop has been
\* called exactly once and every queued entry has been written.
C9_StopBeforeExit ==
    (exited # "no" /\ headerRows > 0) =>
        (stopCalls = 1 /\ logChannel = <<>>)

\* C10: Log never blocks or fails its caller: the call can always be made
\* and leaves the process running; on a channel holding LogChannelCap entries
\* the entry is dropped, otherwise it is appended; the channel never holds
\* more than LogChannelCap entries.
C10_LogNeverBlocks ==
    /\ [](Len(logChannel) <= LogChannelCap)
    /\ [](CanLog => ENABLED CallLog)
    /\ [][logCalls' = logCalls + 1 =>
            /\ exited' = "no"
            /\ (started /\ Len(logChannel) = LogChannelCap)
                  => logChannel' = logChannel
            /\ (started /\ Len(logChannel) < LogChannelCap)
                  => /\ Len(logChannel') = Len(logChannel) + 1
                     /\ SubSeq(logChannel', 1, Len(logChannel)) = logChannel
            /\ ~started => logChannel' = logChannel]_vars

\* A call of Log found the channel full and dropped its entry.
C10_Witness == dropped > 0 /\ Len(logChannel) = LogChannelCap

\* The entries accepted so far, in the order of their acceptance: those
\* already written, then those still queued.
Accepted == logFile \o logChannel

\* C11: Stop closes the channel and returns, closing the file, only after the
\* writer has left its loop with the channel drained; a step either accepts
\* one entry at the tail of the queue or leaves the accepted entries as they
\* are, and the writer writes only the head of the queue, so every accepted
\* entry is written exactly once and in the order of acceptance.
C11_StopDrains ==
    /\ [](fileClosed => (chanClosed /\ logWorkers = 0 /\ logChannel = <<>>))
    /\ [][/\ \/ Accepted' = Accepted
            \/ /\ Len(Accepted') = Len(Accepted) + 1
               /\ SubSeq(Accepted', 1, Len(Accepted)) = Accepted
               /\ logFile' = logFile
          /\ logFile' # logFile =>
                (logChannel # <<>> /\ logFile' = Append(logFile, Head(logChannel)))
          /\ stopCalls' # stopCalls => (chanClosed' /\ ~fileClosed')]_vars

\* Stop has returned after the writer wrote the backlog and then the two
\* entries accepted behind it, a 200 followed by a 500.
C11_Witness ==
    /\ fileClosed /\ stopCalls = 1
    /\ Len(logFile) = Len(Backlog) + 2
    /\ logFile[Len(logFile) - 1].Status = 200
    /\ logFile[Len(logFile)].Status = 500

\* C12: a call of Start on a started logger changes nothing of the logger;
\* so however many calls are made before Stop, the header row is written at
\* most once and at most one logWorker runs, and a started logger whose
\* channel is open has exactly one header row and one logWorker.
C12_StartIdempotent ==
    /\ [](headerRows <= 1 /\ logWorkers <= 1)
    /\ []((started /\ ~chanClosed) => (headerRows = 1 /\ logWorkers = 1))
    /\ [][(started /\ startCalls' # startCalls) =>
            UNCHANGED <<enabled, started, logChannel, chanClosed, logFile,
                        headerRows, fileClosed, logWorkers>>]_vars

\* Start was called on a fresh logger and then again on the started one.
C12_Witness ==
    /\ startCalls >= 2 /\ logCalls = 0
    /\ started /\ headerRows = 1 /\ logWorkers = 1

\* C13: the results of a run are handed to printResults and saveResults by
\* one goroutine only, main or the signal handler, never by both.
C13_ReportedOnce == Cardinality(printedBy) <= 1

\* C14: once runLoadTest has started (its semaphore exists), the process
\* does not exit before printResults has been called with a summary.
C14_SummaryBeforeExit ==
    (exited # "no" /\ semCap >= 0) => printedBy # {}

\* The TestResults structs some goroutine holds.
Snapshots == {testResults, returned, sigSnap} \ {NoResults}

\* C15: a TestResults keeps the values it was built with: the histogram
\* read through its StatusCodes field is the histogram at the time of
\* building, whatever has been recorded since.
C15_SnapshotImmutable ==
    \A tr \in Snapshots : StatusCodesOf(tr) = tr.codesWhenBuilt

\* C16: makeRequest gives success exactly for a 200 whose body does not
\* unmarshal into a non-empty error list; a transport error gives no status
\* code (the zero value) and no success, any other response keeps its status
\* code. The counters change only when a worker leaves the critical section
\* with its result r: then failedCount grows by one if r is not a success
\* and not at all otherwise, and the histogram entry of r's status code
\* grows by one.
C16_FailureCounting ==
    /\ [](output # <<>> =>
            LET resp == input[1]
                r == output[1]
            IN /\ r.Success <=>
                     (~resp.err /\ resp.status = 200
                      /\ ~(resp.json /\ resp.errors > 0))
               /\ resp.err => (r.StatusCode = 0 /\ ~r.Success)
               /\ ~resp.err => r.StatusCode = resp.status)
    /\ [][IF workers'[At("release")] = workers[At("release")] + 1
          THEN \E r \in Outcomes :
                  /\ workers'[Holding("lock", r)]
                        = workers[Holding("lock", r)] - 1
                  /\ failedCount' = failedCount + (IF r.Success THEN 0 ELSE 1)
                  /\ successCount' = successCount + (IF r.Success THEN 1 ELSE 0)
                  /\ statusCodes' = [statusCodes EXCEPT
                                       ![r.StatusCode] = @ + 1]
          ELSE UNCHANGED <<failedCount, successCount, statusCodes>>]_vars

\* A transport failure and a 200 carrying errors have both been recorded as
\* failed, the second under its status code.
C16_Witness ==
    /\ failedCount = 2 /\ successCount = 0
    /\ statusCodes[200] = 1 /\ statusCodes[0] = 1
    /\ output # <<>> /\ input[1].err

\* runLoadTest is past its logger setup.
SetupDone == mainpc \notin {"derive", "makeSem", "loggerNew", "loggerStart"}

\* C17: when the logger was not created or did not start (no Stop was
\* deferred), nothing is ever queued, written or dropped, no logWorker runs
\* and Stop is not called; config.LogRequests is off if a logger was created;
\* and a run that is neither interrupted nor hit by a marshal error still
\* returns with all TotalReqs requests counted.
C17_LoggerFailure ==
    (SetupDone /\ ~stopDeferred) =>
        /\ logChannel = <<>> /\ logFile = <<>> /\ dropped = 0
        /\ logWorkers = 0 /\ stopCalls = 0
        /\ mainpc \notin {"deferStop", "stopWait"}
        /\ logger = "set" => ~LogRequests
        /\ (returned # NoResults /\ gracefulShutdown = 0
            /\ workers[At("marshalError")] = 0)
              => (returned.TotalRequests = TotalReqs
                  /\ HistogramTotal = TotalReqs)

\* The logger was created and failed to start; both workers reached their
\* LogRequest call and the run returned with both requests counted.
C17_Witness ==
    /\ logger = "set" /\ enabled /\ ~stopDeferred
    /\ logCalls = 2
    /\ returned # NoResults /\ returned.TotalRequests = 2
    /\ mainpc = "exited"

\* The elements a random.choice placeholder lists.
Listed(piece) == generateRandomChoice(piece.args)

\* C19: for a text that is one placeholder, random.int(min,max) gives an
\* integer of min..max, random.choice gives one of the listed elements (as
\* a string, or as the number it spells), and random.string(n) gives a
\* string of n characters of the charset.
C19_PlaceholderRanges ==
    (output # <<>> /\ Len(input[1]) = 1) =>
        LET p == input[1][1]
            v == output[1]
        IN /\ p.tok = "int" =>
                /\ v.kind = "int"
                /\ Atoi(p.args[1]) <= v.val /\ v.val <= Atoi(p.args[2])
           /\ p.tok = "choice" =>
                \E c \in Listed(p) :
                    \/ v.kind = "string" /\ v.val = c
                    \/ v.kind = "int" /\ ParsesAsFloat(c) /\ v.val = Atoi(c)
           /\ p.tok = "string" =>
                /\ v.kind = "string"
                /\ Len(v.val) = Atoi(p.args[1])
                /\ \A i \in 1..Len(v.val) : v.val[i] \in Charset

\* Tree b has the shape of tree a: the same keys in every map, the same
\* length in every list, position by position, a leaf where a has a string
\* and a's own value where a has any other leaf.
RECURSIVE SameShape(_, _)
SameShape(a, b) ==
    CASE a.kind = "map" ->
            /\ b.kind = "map"
            /\ DOMAIN b.val = DOMAIN a.val
            /\ \A k \in DOMAIN a.val : SameShape(a.val[k], b.val[k])
      [] a.kind = "list" ->
            /\ b.kind = "list"
            /\ Len(b.val) = Len(a.val)
            /\ \A i \in 1..Len(a.val) : SameShape(a.val[i], b.val[i])
      [] a.kind = "string" -> b.kind \in {"string", "int"}
      [] OTHER -> b = a

\* C18: the tree generateRandomVariables returns has the shape of baseVars,
\* with every non-string leaf unchanged, and the call leaves baseVars as it
\* was.
C18_ShapePreserved ==
    /\ [](output # <<>> => SameShape(input[1], output[1]))
    /\ [][input' = input]_vars

\* A tree with a nested list of two placeholders and an int leaf has been
\* expanded, and a string leaf of it was replaced by a number.
C18_Witness ==
    /\ output # <<>>
    /\ input[1].kind = "map"
    /\ DOMAIN input[1].val = {"id", "tags"}
    /\ input[1].val["id"] = IntValue(7)
    /\ input[1].val["tags"].kind = "list"
    /\ Len(input[1].val["tags"].val) = 2
    /\ input[1].val["tags"].val[1].kind = "string"
    /\ output[1].val["tags"].val[1] = IntValue(2)

\* C20: the statistics of a snapshot of a non-empty window are ordered:
\* Min <= P50 <= P75 <= P95 <= P99 <= P99.9 <= Max and Min <= Avg <= Max.
C20_PercentileOrder ==
    output # <<>> =>
        LET m == output[1]
        IN /\ m.Min <= m.P50 /\ m.P50 <= m.P75 /\ m.P75 <= m.P95
           /\ m.P95 <= m.P99 /\ m.P99 <= m.P999 /\ m.P999 <= m.Max
           /\ m.Min <= m.Avg /\ m.Avg <= m.Max

\* A window filled in descending order, with the median strictly between
\* the extremes.
C20_Witness ==
    /\ output # <<>>
    /\ Len(input[1]) >= 3
    /\ input[1][1] > input[1][Len(input[1])]
    /\ output[1].Min < output[1].P50 /\ output[1].P50 < output[1].Max

C22_SlotBeforeSpawn ==
    semCap >= 1 =>
        /\ workers[At("select")] = 0
        /\ requestCount - CountIn(workers, Ended) <= semCap

\* C23: once the flag is set no semaphore slot is acquired: no step taken
\* with the flag set raises the number of slots held.
C23_NoAcquireAfterFlag ==
    [][gracefulShutdown = 1 => semaphore' <= semaphore]_vars

\* C24: in every snapshot the number of latency samples behind its Metrics
\* equals its TotalRequests: no snapshot holds a sample of an outcome its
\* counters do not count. (The window holds TotalReqs samples, so its
\* capacity is never exceeded.)
C24_WindowMatchesCounters ==
    \A tr \in Snapshots : tr.Metrics = tr.TotalRequests

\* C25: reads of the latest results exclude the workers' writes: while the
\* signal handler or main is inside printResults and saveResults, reading the
\* counts and ranging over the histogram, no worker updates the counters, the
\* histogram or testResults.
C25_ReadsExcludeWrites ==
    [][(sigpc = "print" \/ mainpc = "print")
          => /\ statusCodes' = statusCodes
             /\ successCount' = successCount
             /\ failedCount' = failedCount]_vars

\* C26: a worker whose payload fails to marshal abandons its request: the
\* step makes no makeRequest call, adds no count, histogram entry, latency
\* sample, snapshot or log entry, releases the worker's slot and signals the
\* wait group; the worker does nothing afterwards, so an abandoned request is
\* never among the outcomes counted.
C26_MarshalFailure ==
    /\ [][workers'[At("marshalError")] >= workers[At("marshalError")]]_vars
    /\ [][workers'[At("marshalError")] > workers[At("marshalError")] =>
            /\ workers'[At("request")] = workers[At("request")]
            /\ UNCHANGED <<successCount, failedCount, statusCodes, tCount,
                           testResults>>
            /\ UNCHANGED <<logCalls, logChannel, logFile>>
            /\ semaphore' = semaphore - 1
            /\ wg' = wg - 1]_vars
    /\ [](successCount + failedCount + workers[At("marshalError")]
              <= requestCount)

\* runLoadTest has returned after one request was abandoned and another was
\* recorded; no slot is held.
C26_Witness ==
    /\ workers[At("marshalError")] = 1
    /\ returned # NoResults
    /\ returned.TotalRequests = 1
    /\ requestCount = 2
    /\ semaphore = 0

\* C27: replaceRandomPlaceholders returns a number only for a text that is
\* exactly one numeric-producing placeholder; a text with characters around
\* the placeholder, a text whose placeholder is random.string or
\* random.choice, and a text without placeholder come back as strings.
C27_NumericOnlyForNumericToken ==
    (output # <<>> /\ output[1].kind # "string") =>
        (Len(input[1]) = 1 /\ input[1][1].tok = "int")

\* C28: entered with Concurrency <= 0 and TargetRPS = R > 0, runLoadTest has
\* set Concurrency to max(1, ceil(0.3 * R)) from its derivation step on; a
\* configured Concurrency > 0 is kept; the semaphore is made after that step
\* with the value Concurrency then has, and Concurrency stays the same to the
\* end of the run.
C28_DerivedConcurrency ==
    LET c == input[1]
        R == input[2]
        ceil == CHOOSE n \in 0..R : 10 * n >= 3 * R /\ 10 * (n - 1) < 3 * R
        derived == IF R > 0 /\ c <= 0
                   THEN IF ceil > 1 THEN ceil ELSE 1
                   ELSE c
    IN /\ TargetRPS = R
       /\ mainpc = "derive" => (Concurrency = c /\ semCap = -1)
       /\ mainpc # "derive" => Concurrency = derived
       /\ semCap >= 0 => semCap = Concurrency

\* A run entered with a negative Concurrency and the highest rate has spawned
\* both workers under the derived concurrency of more than one slot, and has
\* returned.
C28_Witness ==
    /\ input = <<-1, MaxRPS>>
    /\ Concurrency > 1
    /\ semCap = Concurrency
    /\ returned # NoResults
    /\ returned.TotalRequests = 2

\* C29: the slots held are exactly those of the workers between their
\* acquisition and their return: a worker gives back one slot when it ends
\* after its acquisition (having recorded its result, at the flag check, at
\* the marshal error), none when it ends at ctx.Done() without one, and does
\* nothing once ended; when runLoadTest has returned no slot is held.
C29_SlotsReleasedOnce ==
    /\ [](semaphore = Holders)
    /\ [](returned # NoResults => semaphore = 0)
    /\ [][\A e \in Ended :
            /\ workers'[e] >= workers[e]
            /\ workers'[e] > workers[e] =>
                  semaphore' = IF e = At("ctxDone")
                               THEN semaphore ELSE semaphore - 1]_vars

\* runLoadTest has returned after one worker recorded its result and another
\* returned at its flag check.
C29_Witness ==
    /\ returned # NoResults
    /\ workers[At("returned")] = 1
    /\ workers[At("cancelled")] = 1
    /\ semaphore = 0

====
